---- MODULE Spec2Model ----
(***************************************************************************)
(* Model of flightsim's "run" command (cmd/run.go): the cobra command      *)
(* built by newRunCommand, its RunE closure, selectSimulators, the catalog *)
(* allsimualtors and the orchestrator loop run().                          *)
(*                                                                         *)
(* Strings that the code only compares (simulator names, phase lines,      *)
(* templates) are TLA+ strings.  Target identifiers, which the code parses *)
(* with net.SplitHostPort, are sequences of one-character strings.         *)
(* Durations are in milliseconds.                                          *)
(***************************************************************************)
EXTENDS Integers, Sequences, FiniteSets, TLC

VARIABLES
    simulatorNames, \* closure variable of newRunCommand (run.go:20), shared by every RunE call
    allsimualtors,  \* the package-level catalog (run.go:77)
    pc,             \* position of the current RunE/run call; "idle" between calls
    args,           \* RunE's args
    fast,           \* the --fast flag
    result,         \* what the last RunE call returned: "none", "nil", "unrecognized", "iperr"
    extIP,          \* RunE's extIP
    simulators,     \* RunE's simulators slice, then run's parameter
    interval,       \* RunE's interval, then run's parameter
    idx,            \* run: index of the current entry of simulators (1-based)
    hosts,          \* run: hosts of the current entry
    j,              \* run: index of the current host of hosts (1-based)
    prevHostname,   \* run: prevHostname of the current entry
    log             \* observable events of the current RunE call, in order

vars == <<simulatorNames, allsimualtors, pc, args, fast, result, extIP, simulators,
          interval, idx, hosts, j, prevHostname, log>>

----------------------------------------------------------------------------
(* Bounds of the model *)

\* longest argument list given to one RunE call
MaxArgs == 2

\* most targets the Hosts calls of one run produce in total
MaxTargets == 3

----------------------------------------------------------------------------
(* Program constants *)

\* 2 * time.Second
InterEntryDelay == 2000

\* 500 * time.Millisecond
DnsDelay == 500

\* the scan entry's interval
ScanDelay == 0

----------------------------------------------------------------------------
(* Generic helpers *)

RECURSIVE SeqsUpTo(_, _)
SeqsUpTo(S, n) ==
    IF n = 0 THEN {<<>>}
    ELSE LET shorter == SeqsUpTo(S, n - 1)
         IN  shorter \cup {Append(s, x) : s \in {t \in shorter : Len(t) = n - 1}, x \in S}

Range(s) == {s[i] : i \in 1..Len(s)}

\* utils.StringsContains(list, x)
StringsContains(list, x) == \E i \in 1..Len(list) : list[i] = x

\* bytealg.IndexByteString, 1-based; 0 when c does not occur (Go: -1)
IndexByte(s, c) ==
    IF \E i \in 1..Len(s) : s[i] = c
    THEN CHOOSE i \in 1..Len(s) : s[i] = c /\ \A k \in 1..(i - 1) : s[k] # c
    ELSE 0

\* net's last(s, c), 1-based; 0 when c does not occur (Go: -1)
LastIndexByte(s, c) ==
    IF \E i \in 1..Len(s) : s[i] = c
    THEN CHOOSE i \in 1..Len(s) : s[i] = c /\ \A k \in (i + 1)..Len(s) : s[k] # c
    ELSE 0

\* s[from:] of Go with from 0-based = SubSeq(s, from + 1, Len(s))
Suffix(s, from1) == SubSeq(s, from1, Len(s))

----------------------------------------------------------------------------
(* net.SplitHostPort, as called at run.go:126.  Returns host, port and   *)
(* whether an error was returned (host and port are "" then).             *)

SplitErr == [host |-> <<>>, port |-> <<>>, err |-> TRUE]

SplitHostPort(hostport) ==
    LET i == LastIndexByte(hostport, ":")
    IN
    IF i = 0 THEN SplitErr                                \* missing port
    ELSE
      IF hostport[1] = "["
      THEN LET end == IndexByte(hostport, "]")
           IN
           IF end = 0 THEN SplitErr                       \* missing ']'
           ELSE IF end = Len(hostport) THEN SplitErr      \* missing port
           ELSE IF end + 1 # i THEN SplitErr              \* too many colons / missing port
           ELSE IF IndexByte(Suffix(hostport, 2), "[") # 0 THEN SplitErr
           ELSE IF IndexByte(Suffix(hostport, end + 1), "]") # 0 THEN SplitErr
           ELSE [host |-> SubSeq(hostport, 2, end - 1),
                 port |-> Suffix(hostport, i + 1),
                 err  |-> FALSE]
      ELSE LET host == SubSeq(hostport, 1, i - 1)
           IN
           IF IndexByte(host, ":") # 0 THEN SplitErr      \* too many colons
           ELSE IF IndexByte(hostport, "[") # 0 THEN SplitErr
           ELSE IF IndexByte(hostport, "]") # 0 THEN SplitErr
           ELSE [host |-> host,
                 port |-> Suffix(hostport, i + 1),
                 err  |-> FALSE]

\* a display hostname without the fallback to the identifier on a parse error
DisplayHostnameNoFallback(host) == SplitHostPort(host).host

\* run.go:126-129: the display hostname of a target
DisplayHostname(host) ==
    LET r == SplitHostPort(host)
    IN  IF r.err THEN host ELSE r.host

----------------------------------------------------------------------------
(* The catalog, run.go:77-109 *)

Catalog ==
    << [name        |-> "c2-dns",
        infoHeaders |-> <<"Preparing random sample of current C2 domains">>,
        infoRun     |-> "Resolving %s",
        s           |-> "C2DNS",
        interval    |-> DnsDelay],
       [name        |-> "dga",
        infoHeaders |-> <<"Generating list of DGA domains">>,
        infoRun     |-> "Resolving %s",
        s           |-> "DGA",
        interval    |-> DnsDelay],
       [name        |-> "scan",
        infoHeaders |-> <<"Preparing random sample of RFC 1918 destinations",
                          "Preparing random sample of common TCP destination ports">>,
        infoRun     |-> "Port scanning %s",
        s           |-> "PortScan",
        interval    |-> ScanDelay],
       [name        |-> "tunnel",
        infoHeaders |-> <<"Preparing DNS tunnel hostnames">>,
        infoRun     |-> "Resolving %s",
        s           |-> "Tunnel",
        interval    |-> DnsDelay] >>

\* run.go:20: the initial value of the closure variable
DefaultSimulatorNames == <<"c2-dns", "dga", "scan", "tunnel">>

----------------------------------------------------------------------------
(* selectSimulators, run.go:59-67: the entries of the catalog whose name  *)
(* is in names, appended (copied) in the catalog's order.                  *)

RECURSIVE SelectFrom(_, _, _)
SelectFrom(cat, names, k) ==
    IF k > Len(cat) THEN <<>>
    ELSE IF StringsContains(names, cat[k].name)
         THEN <<cat[k]>> \o SelectFrom(cat, names, k + 1)
         ELSE SelectFrom(cat, names, k + 1)

\* a selector that walks the requested names instead of the catalog
RECURSIVE SelectInArgOrder(_, _, _)
SelectInArgOrder(cat, names, k) ==
    IF k > Len(names) THEN <<>>
    ELSE SelectSeq(cat, LAMBDA e : e.name = names[k]) \o SelectInArgOrder(cat, names, k + 1)

selectSimulatorsArgOrder(cat, names) == SelectInArgOrder(cat, names, 1)

\* a selector that treats an empty request as a request for everything
selectSimulatorsEmptyIsAll(cat, names) ==
    IF names = <<>> THEN cat ELSE SelectFrom(cat, names, 1)

selectSimulators(cat, names) == SelectFrom(cat, names, 1)

\* a fast mode that leaves the entries' own delays as they are
ApplyFastNone(sel, isFast) == sel

\* run.go:43-48: in fast mode every entry of the selection gets interval 0
ApplyFast(sel, isFast) ==
    IF isFast THEN [i \in 1..Len(sel) |-> [sel[i] EXCEPT !.interval = 0]]
    ELSE sel

\* run.go:42-45
PreEntryInterval(isFast) == IF isFast THEN 0 ELSE InterEntryDelay

----------------------------------------------------------------------------
(* Inputs *)

\* names a caller may pass: the catalog's names and one that is not a name
ArgNames == {"c2-dns", "dga", "scan", "tunnel", "bogus"}

ArgLists == SeqsUpTo(ArgNames, MaxArgs)

\* target identifiers a Simulator may produce: two ports of one host, another
\* host, and the empty identifier
Targets ==
    { <<"a", ":", "8", "0">>,
      <<"a", ":", "4", "4", "3">>,
      <<"b", ":", "2", "2">>,
      <<>> }

\* the one target identifier the Simulators produce where the claims are
\* about the command and the sequence of entries, not about the targets
OneTarget == { <<"a", ":", "8", "0">> }

\* argument lists where the claims are about the target loop
RunArgLists == { <<"scan">>, <<"tunnel", "c2-dns">>, <<"bogus">> }

\* what utils.ExternalIP may return on success
ExternalIPs == {"192.0.2.1"}

\* the addresses where the claims are about the run's source identity
RunExternalIPs == {"192.0.2.1", "198.51.100.7"}

\* number of Simulate calls in a log
RECURSIVE CountKind(_, _)
CountKind(l, kind) ==
    IF l = <<>> THEN 0
    ELSE (IF Head(l)[1] = kind THEN 1 ELSE 0) + CountKind(Tail(l), kind)

----------------------------------------------------------------------------
(* Initial state: the command has been built by newRunCommand *)

Init ==
    /\ simulatorNames = DefaultSimulatorNames
    /\ allsimualtors = Catalog
    /\ pc = "idle"
    /\ args = <<>>
    /\ fast = FALSE
    /\ result = "none"
    /\ extIP = "unset"
    /\ simulators = <<>>
    /\ interval = 0
    /\ idx = 0
    /\ hosts = <<>>
    /\ j = 0
    /\ prevHostname = <<>>
    /\ log = <<>>

----------------------------------------------------------------------------
(* RunE, run.go:25-51 *)

\* a validation that looks at the first argument only
ArgsRecognizedFirstOnly(names, as) == Len(as) > 0 => StringsContains(names, as[1])

\* run.go:26-30: every argument is one of simulatorNames
ArgsRecognized(names, as) == \A i \in 1..Len(as) : StringsContains(names, as[i])

\* run.go:32-34
NamesAfterArgs(names, as) == IF Len(as) > 0 THEN as ELSE names

\* RunE is called with args as and the --fast flag f: run.go:26-34
Invoke(as, f) ==
    /\ pc = "idle"
    /\ args' = as
    /\ fast' = f
    /\ log' = <<>>
    /\ extIP' = "unset"
    /\ simulators' = <<>>
    /\ interval' = 0
    /\ idx' = 0
    /\ hosts' = <<>>
    /\ j' = 0
    /\ prevHostname' = <<>>
    /\ IF ArgsRecognized(simulatorNames, as)
       THEN /\ simulatorNames' = NamesAfterArgs(simulatorNames, as)
            /\ result' = "none"
            /\ pc' = "resolve"
       ELSE /\ simulatorNames' = simulatorNames
            /\ result' = "unrecognized"
            /\ pc' = "idle"
    /\ UNCHANGED allsimualtors

\* run.go:36-39: utils.ExternalIP succeeds with ip
ResolveOk(ip) ==
    /\ pc = "resolve"
    /\ extIP' = ip
    /\ log' = Append(log, <<"ExternalIP">>)
    /\ pc' = "select"
    /\ UNCHANGED <<simulatorNames, allsimualtors, args, fast, result, simulators,
                   interval, idx, hosts, j, prevHostname>>

\* an ExternalIP error that is not returned
ResolveFailIgnored ==
    /\ pc = "resolve"
    /\ log' = Append(log, <<"ExternalIP">>)
    /\ pc' = "select"
    /\ UNCHANGED <<simulatorNames, allsimualtors, args, fast, result, extIP, simulators,
                   interval, idx, hosts, j, prevHostname>>

\* run.go:36-39: utils.ExternalIP fails, RunE returns the error
ResolveFail ==
    /\ pc = "resolve"
    /\ log' = Append(log, <<"ExternalIP">>)
    /\ result' = "iperr"
    /\ pc' = "idle"
    /\ UNCHANGED <<simulatorNames, allsimualtors, args, fast, extIP, simulators,
                   interval, idx, hosts, j, prevHostname>>

\* a fast mode that writes through to the catalog, as it would if the
\* selection shared its entries with the catalog
CatalogAfterFastShared(cat, names, isFast) ==
    IF isFast
    THEN [k \in 1..Len(cat) |->
            IF StringsContains(names, cat[k].name) THEN [cat[k] EXCEPT !.interval = 0]
            ELSE cat[k]]
    ELSE cat

\* run.go:45-47 assigns to simulators[i]; simulators holds the copies of the
\* catalog's entries that append made at run.go:63, in an array of its own,
\* so the catalog keeps its values
CatalogAfterFast(cat, names, isFast) == cat

\* run.go:41-48: the selection and the run's delays
Select ==
    /\ pc = "select"
    /\ simulators' = ApplyFast(selectSimulators(allsimualtors, simulatorNames), fast)
    /\ interval' = PreEntryInterval(fast)
    /\ allsimualtors' = CatalogAfterFast(allsimualtors, simulatorNames, fast)
    /\ pc' = "run"
    /\ UNCHANGED <<simulatorNames, args, fast, result, extIP,
                   idx, hosts, j, prevHostname, log>>

----------------------------------------------------------------------------
(* run, run.go:111-143 *)

\* run.go:112-113
RunBegin ==
    /\ pc = "run"
    /\ log' = log \o << <<"Welcome", extIP>>, <<"Header">> >>
    /\ idx' = 1
    /\ pc' = "entry"
    /\ UNCHANGED <<simulatorNames, allsimualtors, args, fast, result, extIP, simulators,
                   interval, hosts, j, prevHostname>>

\* printMsg(s.name, s.infoHeaders...): one line per phase description
InfoLines(s) == [k \in 1..Len(s.infoHeaders) |-> <<"Info", s.name, s.infoHeaders[k]>>]

\* run.go:115-117
EntryStartEvents(s, d) == << <<"Starting", s.name>> >> \o InfoLines(s) \o << <<"Sleep", d>> >>

EntryStart ==
    /\ pc = "entry"
    /\ idx <= Len(simulators)
    /\ log' = log \o EntryStartEvents(simulators[idx], interval)
    /\ pc' = "hosts"
    /\ UNCHANGED <<simulatorNames, allsimualtors, args, fast, result, extIP, simulators,
                   interval, idx, hosts, j, prevHostname>>

\* run.go:119-122: the call of s.s.Hosts() with what it returned, and the
\* failure line printed when it returned an error
HostsEvents(s, list, failed) ==
    IF failed THEN << <<"Hosts", s.name, s.s, list, failed>>, <<"Failed", s.name>> >>
    ELSE << <<"Hosts", s.name, s.s, list, failed>> >>

\* a Hosts call whose error ends the run
CallHostsAbortOnError(list, failed) ==
    /\ pc = "hosts"
    /\ CountKind(log, "Simulate") + Len(list) <= MaxTargets
    /\ hosts' = list
    /\ log' = log \o HostsEvents(simulators[idx], list, failed)
    /\ prevHostname' = <<>>
    /\ j' = 1
    /\ IF failed THEN pc' = "idle" /\ result' = "hostserr"
                 ELSE pc' = "target" /\ result' = result
    /\ UNCHANGED <<simulatorNames, allsimualtors, args, fast, extIP, simulators,
                   interval, idx>>

\* a Hosts call after which prevHostname is still the previous entry's
CallHostsKeepPrev(list, failed) ==
    /\ pc = "hosts"
    /\ CountKind(log, "Simulate") + Len(list) <= MaxTargets
    /\ hosts' = list
    /\ log' = log \o HostsEvents(simulators[idx], list, failed)
    /\ j' = 1
    /\ pc' = "target"
    /\ UNCHANGED <<simulatorNames, allsimualtors, args, fast, result, extIP, simulators,
                   interval, idx, prevHostname>>

\* run.go:119-124: s.s.Hosts() returns (list, err # nil iff failed)
CallHosts(list, failed) ==
    /\ pc = "hosts"
    /\ CountKind(log, "Simulate") + Len(list) <= MaxTargets
    /\ hosts' = list
    /\ log' = log \o HostsEvents(simulators[idx], list, failed)
    /\ prevHostname' = <<>>
    /\ j' = 1
    /\ pc' = "target"
    /\ UNCHANGED <<simulatorNames, allsimualtors, args, fast, result, extIP, simulators,
                   interval, idx>>

\* an announcement for every target, changed hostname or not
AnnounceEventsAlways(s, prev, hostname) == << <<"Announce", s.name, s.infoRun, hostname>> >>

\* run.go:132-134
AnnounceEvents(s, prev, hostname) ==
    IF prev # hostname THEN << <<"Announce", s.name, s.infoRun, hostname>> >> ELSE <<>>

\* a Simulate call that is given the display hostname instead of the target
SimulateEventsParsed(s, ip, host) ==
    << <<"Simulate", s.name, s.s, ip, DisplayHostname(host)>>, <<"Sleep", s.interval>> >>

\* a Simulate call that is not followed by the pacing wait
SimulateEventsNoSleep(s, ip, host) == << <<"Simulate", s.name, s.s, ip, host>> >>

\* run.go:135-136
SimulateEvents(s, ip, host) == << <<"Simulate", s.name, s.s, ip, host>>, <<"Sleep", s.interval>> >>

\* run.go:125-138: one iteration of the target loop
Target ==
    /\ pc = "target"
    /\ j <= Len(hosts)
    /\ LET s == simulators[idx]
           host == hosts[j]
           hostname == DisplayHostname(host)
       IN  /\ log' = log \o AnnounceEvents(s, prevHostname, hostname)
                         \o SimulateEvents(s, extIP, host)
           /\ prevHostname' = hostname
    /\ j' = j + 1
    /\ UNCHANGED <<simulatorNames, allsimualtors, pc, args, fast, result, extIP, simulators,
                   interval, idx, hosts>>

\* an entry that ends without its Finished line
EntryFinishSilent ==
    /\ pc = "target"
    /\ j > Len(hosts)
    /\ idx' = idx + 1
    /\ pc' = "entry"
    /\ UNCHANGED <<simulatorNames, allsimualtors, args, fast, result, extIP, simulators,
                   interval, hosts, j, prevHostname, log>>

\* run.go:139-140: the target loop is over
EntryFinish ==
    /\ pc = "target"
    /\ j > Len(hosts)
    /\ log' = Append(log, <<"Finished", simulators[idx].name>>)
    /\ idx' = idx + 1
    /\ pc' = "entry"
    /\ UNCHANGED <<simulatorNames, allsimualtors, args, fast, result, extIP, simulators,
                   interval, hosts, j, prevHostname>>

\* an entry loop that looks for one entry more than the selection holds
RunEndOffByOne ==
    /\ pc = "entry"
    /\ idx > Len(simulators) + 1
    /\ log' = Append(log, <<"Goodbye">>)
    /\ result' = "nil"
    /\ pc' = "idle"
    /\ UNCHANGED <<simulatorNames, allsimualtors, args, fast, extIP, simulators,
                   interval, idx, hosts, j, prevHostname>>

\* run.go:141-142 and run.go:50: the entry loop is over
RunEnd ==
    /\ pc = "entry"
    /\ idx > Len(simulators)
    /\ log' = Append(log, <<"Goodbye">>)
    /\ result' = "nil"
    /\ pc' = "idle"
    /\ UNCHANGED <<simulatorNames, allsimualtors, args, fast, extIP, simulators,
                   interval, idx, hosts, j, prevHostname>>

----------------------------------------------------------------------------
(* Specification *)

\* the steps of the command, with the argument lists callers pass, the lists
\* of targets the Simulators produce and the addresses utils.ExternalIP
\* returns drawn from the given sets
NextWith(argLists, hostLists, ips) ==
    \/ \E as \in argLists, f \in BOOLEAN : Invoke(as, f)
    \/ \E ip \in ips : ResolveOk(ip)
    \/ ResolveFail
    \/ Select
    \/ RunBegin
    \/ EntryStart
    \/ \E list \in hostLists, failed \in BOOLEAN : CallHosts(list, failed)
    \/ Target
    \/ EntryFinish
    \/ RunEnd

\* any arguments, any number of calls of RunE, one target identifier
Next == NextWith(ArgLists, SeqsUpTo(OneTarget, MaxTargets), ExternalIPs)

Spec == Init /\ [][Next]_vars

\* a few argument lists, every list of target identifiers, two addresses
NextRun == NextWith(RunArgLists, SeqsUpTo(Targets, MaxTargets), RunExternalIPs)

SpecRun == Init /\ [][NextRun]_vars

----------------------------------------------------------------------------
(* selectSimulators on its own: the requested names are any list of       *)
(* catalog names, and the one action applies the function to them.        *)

\* longest list of names given to selectSimulators on its own
MaxNames == 3

CatalogNames == {Catalog[k].name : k \in 1..Len(Catalog)}

InitSelector ==
    /\ simulatorNames = DefaultSimulatorNames
    /\ allsimualtors = Catalog
    /\ pc = "selector"
    /\ args \in SeqsUpTo(CatalogNames, MaxNames)
    /\ fast = FALSE
    /\ result = "none"
    /\ extIP = "unset"
    /\ simulators = <<>>
    /\ interval = 0
    /\ idx = 0
    /\ hosts = <<>>
    /\ j = 0
    /\ prevHostname = <<>>
    /\ log = <<>>

\* run.go:59-67 applied to args
SelectorCall ==
    /\ pc = "selector"
    /\ simulators' = selectSimulators(allsimualtors, args)
    /\ pc' = "selected"
    /\ UNCHANGED <<simulatorNames, allsimualtors, args, fast, result, extIP,
                   interval, idx, hosts, j, prevHostname, log>>

NextSelector == SelectorCall

SpecSelector == InitSelector /\ [][NextSelector]_vars

----------------------------------------------------------------------------
(* Vocabulary of the claims *)

NamesOf(sel) == [i \in 1..Len(sel) |-> sel[i].name]

\* position of a name in the catalog
CatalogIndex(n) == CHOOSE k \in 1..Len(Catalog) : Catalog[k].name = n

\* the current RunE call has made its selection
Selected == pc \in {"run", "entry", "hosts", "target"} \/ result = "nil"

\* positions of the events of a kind in l, in order, from position k on
RECURSIVE PositionsFrom(_, _, _)
PositionsFrom(l, kind, k) ==
    IF k > Len(l) THEN <<>>
    ELSE (IF l[k][1] = kind THEN <<k>> ELSE <<>>) \o PositionsFrom(l, kind, k + 1)

Positions(l, kind) == PositionsFrom(l, kind, 1)

EventsOf(l, kind) == SelectSeq(l, LAMBDA e : e[1] = kind)

IsPrefix(a, b) == Len(a) <= Len(b) /\ a = SubSeq(b, 1, Len(a))

\* positions in log of the Hosts calls made so far
HostsCalls == Positions(log, "Hosts")

\* the entry of the Hosts call at p is over at the first Finished after p
EntryEnd(p) ==
    IF \E q \in (p + 1)..Len(log) : log[q][1] = "Finished"
    THEN CHOOSE q \in (p + 1)..Len(log) :
            log[q][1] = "Finished" /\ \A r \in (p + 1)..(q - 1) : log[r][1] # "Finished"
    ELSE Len(log) + 1

EntryClosed(p) == EntryEnd(p) <= Len(log)

\* the events of an entry after its Hosts call and before its Finished line
AfterHosts(p) == SubSeq(log, p + 1, EntryEnd(p) - 1)

\* the same without the failure line: the events of the target loop
TargetLoop(p) == SelectSeq(AfterHosts(p), LAMBDA e : e[1] # "Failed")

\* the list the Hosts call at p returned, and whether it returned an error
Produced(p) == log[p][4]
HostsFailed(p) == log[p][5]

\* the i-th Simulate call of a target loop was announced: the event right
\* before it is an announcement
AnnouncedAt(loop, i) ==
    LET q == Positions(loop, "Simulate")[i]
    IN  q > 1 /\ loop[q - 1][1] = "Announce"

\* the hostnames announced in a target loop, in order
AnnouncedHostnames(loop) ==
    LET a == EventsOf(loop, "Announce") IN [i \in 1..Len(a) |-> a[i][4]]

\* the targets given to Simulate in a target loop, in order
SimulatedTargets(loop) ==
    LET a == EventsOf(loop, "Simulate") IN [i \in 1..Len(a) |-> a[i][5]]

ListA80A443B22 == << <<"a", ":", "8", "0">>, <<"a", ":", "4", "4", "3">>, <<"b", ":", "2", "2">> >>
ListA80B22A443 == << <<"a", ":", "8", "0">>, <<"b", ":", "2", "2">>, <<"a", ":", "4", "4", "3">> >>

----------------------------------------------------------------------------
\* C1: for every list of catalog names, selectSimulators returns exactly the
\* catalog entries whose name is in the list, each once, in the catalog's
\* order, whatever the order of the list; [tunnel, c2-dns] yields
\* [c2-dns, tunnel].
C1_SelectionInCatalogOrder ==
    pc = "selected" =>
        /\ \A i \in 1..Len(simulators) : simulators[i] = Catalog[CatalogIndex(simulators[i].name)]
        /\ Range(NamesOf(simulators)) = Range(args)
        /\ \A a, b \in 1..Len(simulators) :
              a < b => CatalogIndex(simulators[a].name) < CatalogIndex(simulators[b].name)
        /\ (args = <<"tunnel", "c2-dns">> => NamesOf(simulators) = <<"c2-dns", "tunnel">>)

C1_Witness ==
    /\ pc = "selected"
    /\ args = <<"tunnel", "c2-dns">>
    /\ NamesOf(simulators) = <<"c2-dns", "tunnel">>

\* C2: a RunE call whose arguments hold a name that is not a catalog name
\* returns the "not recognized" error at once: nothing is announced, no
\* Hosts or Simulate call is made, ExternalIP is not called and no selection
\* is made.
C2_UnknownNameRejected ==
    (\E i \in 1..Len(args) : args[i] \notin CatalogNames) =>
        /\ pc = "idle"
        /\ result = "unrecognized"
        /\ log = <<>>
        /\ extIP = "unset"
        /\ simulators = <<>>

C2_Witness ==
    /\ args = <<"dga", "bogus">>
    /\ result = "unrecognized"
    /\ pc = "idle"

\* C3: a RunE call with no arguments does what a call with every catalog
\* name does: it is accepted exactly when that call is, and it selects all
\* four catalog entries in the catalog's order.
C3_EmptyArgsEquivalentToAllNames ==
    /\ pc = "idle" =>
          (ArgsRecognized(simulatorNames, <<>>)
              <=> ArgsRecognized(simulatorNames, DefaultSimulatorNames))
    /\ (Selected /\ args = <<>>) => NamesOf(simulators) = NamesOf(Catalog)

\* C4 as claimed: selectSimulators given the empty list returns the full
\* catalog.
C4_EmptyRequestYieldsCatalog ==
    (pc = "selected" /\ args = <<>>) => simulators = allsimualtors

\* C4 as amended: selectSimulators given the empty list returns the empty
\* selection.
C4_EmptyRequestYieldsNothing ==
    (pc = "selected" /\ args = <<>>) => simulators = <<>>

C4_Witness ==
    /\ pc = "selected"
    /\ args = <<>>
    /\ simulators = <<>>

\* C5: in an entry's target loop the target at position i >= 2 is announced
\* exactly when its display hostname differs from that of the target at
\* position i-1; [a:80, a:443, b:22] is announced as a, b and
\* [a:80, b:22, a:443] as a, b, a.
C5_AnnouncedIffHostnameChanged ==
    \A k \in 1..Len(HostsCalls) :
        LET p    == HostsCalls[k]
            loop == TargetLoop(p)
            L    == Produced(p)
            n    == Len(SimulatedTargets(loop))
        IN  /\ \A i \in 2..n :
                  AnnouncedAt(loop, i) <=> DisplayHostname(L[i]) # DisplayHostname(L[i - 1])
            /\ (EntryClosed(p) /\ L = ListA80A443B22)
                  => AnnouncedHostnames(loop) = << <<"a">>, <<"b">> >>
            /\ (EntryClosed(p) /\ L = ListA80B22A443)
                  => AnnouncedHostnames(loop) = << <<"a">>, <<"b">>, <<"a">> >>

C5_Witness ==
    /\ Len(HostsCalls) = 1
    /\ EntryClosed(HostsCalls[1])
    /\ Produced(HostsCalls[1]) = ListA80A443B22
    /\ AnnouncedHostnames(TargetLoop(HostsCalls[1])) = << <<"a">>, <<"b">> >>
    /\ Len(SimulatedTargets(TargetLoop(HostsCalls[1]))) = Len(ListA80A443B22)

\* C6: the first target of an entry is always announced, whatever its
\* display hostname is.
C6_FirstTargetAnnounced ==
    \A k \in 1..Len(HostsCalls) :
        LET p    == HostsCalls[k]
            loop == TargetLoop(p)
        IN  Len(loop) > 0 =>
                loop[1] = <<"Announce", log[p][2],
                            Catalog[CatalogIndex(log[p][2])].infoRun,
                            DisplayHostname(Produced(p)[1])>>

\* C7: a Hosts failure does not abort the run: the failure line is printed
\* right after the failing call, RunE does not return an error because of
\* it, and a run that has returned has started, called Hosts for, simulated
\* every produced target of, and finished every selected entry, ending with
\* the overall completion line.
C7_HostsFailureDoesNotAbort ==
    /\ \A q \in 1..Len(log) :
          log[q][1] = "Failed" =>
              /\ q > 1
              /\ log[q - 1][1] = "Hosts"
              /\ log[q - 1][2] = log[q][2]
              /\ log[q - 1][5]
              /\ (pc = "idle" => result = "nil")
    /\ \A k \in 1..Len(HostsCalls) :
          HostsFailed(HostsCalls[k]) =>
              log[HostsCalls[k] + 1] = <<"Failed", log[HostsCalls[k]][2]>>
    /\ (pc = "idle" /\ Len(HostsCalls) > 0) =>
          /\ [i \in 1..Len(EventsOf(log, "Starting")) |-> EventsOf(log, "Starting")[i][2]]
                = NamesOf(simulators)
          /\ [i \in 1..Len(HostsCalls) |-> log[HostsCalls[i]][2]] = NamesOf(simulators)
          /\ [i \in 1..Len(EventsOf(log, "Finished")) |-> EventsOf(log, "Finished")[i][2]]
                = NamesOf(simulators)
          /\ \A k \in 1..Len(HostsCalls) :
                /\ EntryClosed(HostsCalls[k])
                /\ SimulatedTargets(TargetLoop(HostsCalls[k])) = Produced(HostsCalls[k])
          /\ log[Len(log)] = <<"Goodbye">>

C7_Witness ==
    /\ result = "nil"
    /\ Len(HostsCalls) >= 2
    /\ HostsFailed(HostsCalls[1])
    /\ ~HostsFailed(HostsCalls[2])
    /\ Produced(HostsCalls[2]) # <<>>
    /\ SimulatedTargets(TargetLoop(HostsCalls[2])) = Produced(HostsCalls[2])

\* C8: when Hosts returns an error the entry contributes no targets: between
\* the failing Hosts call and the entry's Finished line there is the failure
\* line and nothing else, whatever list came with the error.
C8_FailedEntryHasNoTargets ==
    \A k \in 1..Len(HostsCalls) :
        LET p == HostsCalls[k]
        IN  HostsFailed(p) => AfterHosts(p) = << <<"Failed", log[p][2]>> >>

\* C9: in an entry whose Hosts call succeeds, Simulate is called once per
\* produced target, in production order, with the run's source identity and
\* the raw target, announced or not.
C9_SimulateOncePerTarget ==
    \A k \in 1..Len(HostsCalls) :
        LET p    == HostsCalls[k]
            sims == EventsOf(TargetLoop(p), "Simulate")
            e    == Catalog[CatalogIndex(log[p][2])]
            want == [i \in 1..Len(Produced(p)) |->
                        <<"Simulate", e.name, e.s, extIP, Produced(p)[i]>>]
        IN  ~HostsFailed(p) =>
                /\ IsPrefix(sims, want)
                /\ EntryClosed(p) => sims = want

C9_Witness ==
    /\ Len(HostsCalls) = 1
    /\ ~HostsFailed(HostsCalls[1])
    /\ EntryClosed(HostsCalls[1])
    /\ Len(Produced(HostsCalls[1])) = 2
    /\ SimulatedTargets(TargetLoop(HostsCalls[1])) = Produced(HostsCalls[1])
    /\ Len(AnnouncedHostnames(TargetLoop(HostsCalls[1]))) = 1

\* the events the claim C10 orders: everything but the waits and the
\* optional announcements
Observable == SelectSeq(log, LAMBDA e : e[1] \notin {"Announce", "Sleep"})

\* what entry k of the selection must show, given what its Hosts call returned
ExpectedEntry(k) ==
    LET p == HostsCalls[k]
        e == Catalog[CatalogIndex(simulators[k].name)]
    IN  << <<"Starting", e.name>> >>
        \o [h \in 1..Len(e.infoHeaders) |-> <<"Info", e.name, e.infoHeaders[h]>>]
        \o << <<"Hosts", e.name, e.s, Produced(p), HostsFailed(p)>> >>
        \o (IF HostsFailed(p) THEN << <<"Failed", e.name>> >> ELSE <<>>)
        \o [i \in 1..Len(Produced(p)) |-> <<"Simulate", e.name, e.s, extIP, Produced(p)[i]>>]
        \o << <<"Finished", e.name>> >>

RECURSIVE ExpectedEntries(_)
ExpectedEntries(k) ==
    IF k > Len(HostsCalls) \/ k > Len(simulators) THEN <<>>
    ELSE ExpectedEntry(k) \o ExpectedEntries(k + 1)

\* what follows the entries whose Hosts call has been made: the start of the
\* next selected entry, or the overall completion line
ExpectedRest ==
    IF Len(HostsCalls) < Len(simulators)
    THEN LET e == Catalog[CatalogIndex(simulators[Len(HostsCalls) + 1].name)]
         IN  << <<"Starting", e.name>> >>
             \o [h \in 1..Len(e.infoHeaders) |-> <<"Info", e.name, e.infoHeaders[h]>>]
    ELSE << <<"Goodbye">> >>

ExpectedRun ==
    << <<"ExternalIP">>, <<"Welcome", extIP>>, <<"Header">> >>
    \o ExpectedEntries(1) \o ExpectedRest

\* C10: the events of a run are totally ordered, entry after entry in the
\* selection's (catalog) order: Starting, the phase lines, the Hosts call,
\* then per target in production order an optional announcement directly
\* followed by Simulate, then Finished; nothing of the next entry comes
\* before Finished, and the overall completion line comes once, last.
C10_EventsTotallyOrdered ==
    /\ IsPrefix(Observable, ExpectedRun)
    /\ result = "nil" => Observable = ExpectedRun
    /\ \A a, b \in 1..Len(simulators) :
          a < b => CatalogIndex(simulators[a].name) < CatalogIndex(simulators[b].name)
    /\ \A q \in 1..Len(log) :
          log[q][1] = "Announce" =>
              /\ q < Len(log)
              /\ log[q + 1][1] = "Simulate"
              /\ log[q + 1][2] = log[q][2]
              /\ log[q][4] = DisplayHostname(log[q + 1][5])
    /\ Len(HostsCalls) <= Len(simulators)

C10_Witness ==
    /\ result = "nil"
    /\ Len(simulators) = 4
    /\ Len(EventsOf(log, "Simulate")) >= 2
    /\ Len(EventsOf(log, "Finished")) = 4
    /\ log[Len(log)] = <<"Goodbye">>

\* the durations of the waits of a log, summed
RECURSIVE TotalWait(_)
TotalWait(l) ==
    IF l = <<>> THEN 0
    ELSE (IF Head(l)[1] = "Sleep" THEN Head(l)[2] ELSE 0) + TotalWait(Tail(l))

\* C11: in fast mode every wait of the run has duration zero, the wait before
\* each entry as well as the wait after each Simulate call, so the waits of
\* the run sum to zero.
C11_FastModeWaitsZero ==
    fast =>
        /\ \A q \in 1..Len(log) : log[q][1] = "Sleep" => log[q][2] = 0
        /\ TotalWait(log) = 0
        /\ interval = 0
        /\ \A i \in 1..Len(simulators) : simulators[i].interval = 0

C11_Witness ==
    /\ fast
    /\ result = "nil"
    /\ Len(simulators) = 4
    /\ \E q \in 1..Len(log) : log[q][1] = "Simulate" /\ log[q][2] = "dga"
    /\ Len(EventsOf(log, "Sleep")) = 4 + Len(EventsOf(log, "Simulate"))
    /\ TotalWait(log) = 0

\* the number of Simulate calls of an entry in a log
SimulateCount(l, name) == Len(SelectSeq(l, LAMBDA e : e[1] = "Simulate" /\ e[2] = name))

\* the waits the claim C12 expects of the entries i..Len(sel) of a selection
RECURSIVE ClaimedWait(_, _, _)
ClaimedWait(sel, l, i) ==
    IF i > Len(sel) THEN 0
    ELSE 2000 + SimulateCount(l, sel[i].name) * (IF sel[i].name = "scan" THEN 0 ELSE 500)
         + ClaimedWait(sel, l, i + 1)

\* C12: in normal mode the 2-second wait is made once per selected entry,
\* right after its phase lines and also when its Hosts call fails, and the
\* entry's catalog delay (500 ms for c2-dns, dga and tunnel, 0 for scan) is
\* waited once after each Simulate call; the waits of a finished run sum to
\* the sum over the selected entries of 2 s + simulated targets x delay.
C12_NormalModeWaits ==
    ~fast =>
        /\ \A q \in 1..Len(log) :
              /\ log[q][1] = "Simulate" =>
                    /\ q < Len(log)
                    /\ log[q + 1] = <<"Sleep", IF log[q][2] = "scan" THEN 0 ELSE 500>>
              /\ log[q][1] = "Hosts" => log[q - 1] = <<"Sleep", 2000>>
              /\ log[q][1] = "Sleep" =>
                    /\ q > 1
                    /\ log[q - 1][1] \in {"Simulate", "Info"}
        /\ Len(EventsOf(log, "Sleep"))
              = Len(EventsOf(log, "Hosts")) + Len(EventsOf(log, "Simulate"))
              + (IF pc = "hosts" THEN 1 ELSE 0)
        /\ result = "nil" => TotalWait(log) = ClaimedWait(simulators, log, 1)

C12_Witness ==
    /\ ~fast
    /\ result = "nil"
    /\ Len(simulators) = 2
    /\ Len(HostsCalls) = 2
    /\ HostsFailed(HostsCalls[1])
    /\ SimulateCount(log, "dga") = 2
    /\ TotalWait(log) = 5000

\* C13: when ExternalIP returns an error RunE returns it and the run never
\* starts: nothing is selected or announced and no Hosts or Simulate call is
\* made.  ExternalIP is called at most once per RunE call; every run is
\* preceded by exactly one successful call, and the address it returned is
\* the one given to every Simulate call of the run.
C13_SourceIdentityResolvedOnce ==
    /\ result = "iperr" =>
          /\ pc = "idle"
          /\ log = << <<"ExternalIP">> >>
          /\ simulators = <<>>
    /\ Len(EventsOf(log, "ExternalIP")) <= 1
    /\ (pc \in {"select", "run", "entry", "hosts", "target"} \/ result = "nil") =>
          /\ log[1] = <<"ExternalIP">>
          /\ extIP \in RunExternalIPs
    /\ \A q \in 1..Len(log) :
          /\ log[q][1] \in {"Welcome", "Starting", "Hosts", "Simulate", "Goodbye"} =>
                extIP \in RunExternalIPs /\ result # "iperr"
          /\ log[q][1] = "Simulate" => log[q][4] = extIP
          /\ log[q][1] = "Welcome" => log[q][2] = extIP

C13_Witness ==
    /\ result = "iperr"
    /\ args = <<"tunnel", "c2-dns">>
    /\ log = << <<"ExternalIP">> >>
    /\ simulators = <<>>

\* C14: the catalog is never mutated: in every state, after any sequence of
\* RunE calls in either pacing mode, allsimualtors has its declared entries
\* (name, phase lines, template, Simulator, delay), and the selection of a
\* normal-mode run holds the catalog's declared entries, whatever ran before.
C14_CatalogNeverMutated ==
    /\ allsimualtors = Catalog
    /\ \A k \in 1..Len(allsimualtors) :
          allsimualtors[k].interval = (IF allsimualtors[k].name = "scan" THEN 0 ELSE 500)
    /\ (Selected /\ ~fast) =>
          \A i \in 1..Len(simulators) :
              simulators[i] = Catalog[CatalogIndex(simulators[i].name)]

C14_Witness ==
    /\ fast
    /\ result = "nil"
    /\ Len(simulators) = 4
    /\ \A i \in 1..Len(simulators) : simulators[i].interval = 0
    /\ allsimualtors = Catalog
    /\ allsimualtors[1].interval = 500

----------------------------------------------------------------------------
(* The display-hostname derivation on its own: the identifier is any      *)
(* string over a letter, the colon and the brackets, or one of the two    *)
(* identifiers of the claim, and the one action derives its hostname.     *)

\* longest generated target identifier
MaxIdLen == 4

IdAlphabet == {"a", ":", "[", "]"}

ExampleCom == <<"e", "x", "a", "m", "p", "l", "e", ".", "c", "o", "m">>
ExampleCom53 == ExampleCom \o <<":", "5", "3">>

InitSplit ==
    /\ simulatorNames = DefaultSimulatorNames
    /\ allsimualtors = Catalog
    /\ pc = "split"
    /\ args = <<>>
    /\ fast = FALSE
    /\ result = "none"
    /\ extIP = "unset"
    /\ simulators = <<>>
    /\ interval = 0
    /\ idx = 0
    /\ hosts \in {<<id>> : id \in SeqsUpTo(IdAlphabet, MaxIdLen) \cup {ExampleCom, ExampleCom53}}
    /\ j = 1
    /\ prevHostname = <<>>
    /\ log = <<>>

\* run.go:126-129 applied to hosts[j]; the result is left in prevHostname
\* as at run.go:137
SplitCall ==
    /\ pc = "split"
    /\ prevHostname' = DisplayHostname(hosts[j])
    /\ pc' = "splitdone"
    /\ UNCHANGED <<simulatorNames, allsimualtors, args, fast, result, extIP, simulators,
                   interval, idx, hosts, j, log>>

NextSplit == SplitCall

SpecSplit == InitSplit /\ [][NextSplit]_vars

NoneOf(s, chars) == \A k \in 1..Len(s) : s[k] \notin chars

\* the positions of the colon at which id reads as host:port
PlainSplits(id) ==
    {i \in 1..Len(id) :
        /\ id[i] = ":"
        /\ NoneOf(SubSeq(id, 1, i - 1), {":", "[", "]"})
        /\ NoneOf(SubSeq(id, i + 1, Len(id)), {":", "[", "]"})}

\* the positions of the colon at which id reads as [host]:port
BracketSplits(id) ==
    {i \in 3..Len(id) :
        /\ id[1] = "["
        /\ id[i - 1] = "]"
        /\ id[i] = ":"
        /\ NoneOf(SubSeq(id, 2, i - 2), {"[", "]"})
        /\ NoneOf(SubSeq(id, i + 1, Len(id)), {":", "[", "]"})}

\* C15: deriving the display hostname never fails: an identifier that reads
\* as host:port (or [host]:port) yields host, every other identifier is kept
\* whole; "example.com" and "example.com:53" both yield "example.com".
C15_DisplayHostnameTotal ==
    pc = "splitdone" =>
        LET id == hosts[j]
            dh == prevHostname
        IN  /\ \A i \in PlainSplits(id) : dh = SubSeq(id, 1, i - 1)
            /\ \A i \in BracketSplits(id) : dh = SubSeq(id, 2, i - 2)
            /\ (PlainSplits(id) = {} /\ BracketSplits(id) = {}) => dh = id
            /\ Len(dh) <= Len(id)
            /\ id \in {ExampleCom, ExampleCom53} => dh = ExampleCom

C15_Witness ==
    /\ pc = "splitdone"
    /\ hosts = <<ExampleCom53>>
    /\ prevHostname = ExampleCom

\* C16: the previous display hostname belongs to one entry's target loop and
\* is empty again when the next loop begins: when the last target simulated
\* in one entry and the first target of the next entry with targets have the
\* same non-empty display hostname, that first target is still announced.
C16_PrevHostnameResetPerEntry ==
    /\ (pc = "target" /\ j = 1) => prevHostname = <<>>
    /\ \A k \in 2..Len(HostsCalls) :
          LET before == SimulatedTargets(TargetLoop(HostsCalls[k - 1]))
              loop   == TargetLoop(HostsCalls[k])
              after  == SimulatedTargets(loop)
          IN  (/\ before # <<>>
               /\ after # <<>>
               /\ DisplayHostname(after[1]) # <<>>
               /\ DisplayHostname(before[Len(before)]) = DisplayHostname(after[1]))
              => loop[1] = <<"Announce", log[HostsCalls[k]][2],
                             Catalog[CatalogIndex(log[HostsCalls[k]][2])].infoRun,
                             DisplayHostname(after[1])>>

C16_Witness ==
    /\ Len(HostsCalls) >= 2
    /\ SimulatedTargets(TargetLoop(HostsCalls[1])) = << <<"a", ":", "8", "0">> >>
    /\ SimulatedTargets(TargetLoop(HostsCalls[2])) = << <<"a", ":", "8", "0">> >>
    /\ AnnouncedHostnames(TargetLoop(HostsCalls[2])) = << <<"a">> >>

\* C17: in every reachable state the names the command recognises, and runs
\* when it is given no argument, are the four catalog names: whatever was
\* called before, an argument list is accepted exactly when all its names are
\* catalog names, and the empty argument list selects all four entries.
C17_RecognisedNamesFixed ==
    pc = "idle" =>
        /\ \A as \in ArgLists :
              ArgsRecognized(simulatorNames, as) <=> (\A i \in 1..Len(as) : as[i] \in CatalogNames)
        /\ NamesOf(selectSimulators(allsimualtors, NamesAfterArgs(simulatorNames, <<>>)))
              = <<"c2-dns", "dga", "scan", "tunnel">>

\* the number of events of a kind that an entry has in the log
EntryEventCount(kind, name) == Len(SelectSeq(log, LAMBDA e : e[1] = kind /\ e[2] = name))

\* C18: the selection never holds a catalog entry twice, so an entry whose
\* name is given several times runs once: after RunE([dga, dga]) the dga
\* entry has started, had Hosts called and finished exactly once.
C18_NoEntryTwice ==
    /\ \A a, b \in 1..Len(simulators) : a # b => simulators[a].name # simulators[b].name
    /\ \A n \in CatalogNames :
          /\ EntryEventCount("Starting", n) <= 1
          /\ EntryEventCount("Hosts", n) <= 1
          /\ EntryEventCount("Finished", n) <= 1
    /\ (result = "nil" /\ args # <<>>) =>
          \A i \in 1..Len(args) :
              /\ EntryEventCount("Starting", args[i]) = 1
              /\ EntryEventCount("Hosts", args[i]) = 1
              /\ EntryEventCount("Finished", args[i]) = 1

C18_Witness ==
    /\ args = <<"dga", "dga">>
    /\ result = "nil"
    /\ NamesOf(simulators) = <<"dga">>
    /\ EntryEventCount("Starting", "dga") = 1
    /\ EntryEventCount("Hosts", "dga") = 1
    /\ Len(EventsOf(log, "Finished")) = 1

----------------------------------------------------------------------------
(* Termination of run, run.go:111-143 *)

\* the argument lists of the runs whose termination is checked
LiveArgLists == RunArgLists \cup {<<>>}

\* the lists of targets their Hosts calls return
LiveHostLists == SeqsUpTo(OneTarget, MaxTargets)

NextLive == NextWith(LiveArgLists, LiveHostLists, ExternalIPs)

\* a step of run: run is sequential code without a blocking operation of its
\* own, so once it has started it takes its next step as long as the Hosts
\* and Simulate calls it makes return
RunStep ==
    \/ RunBegin
    \/ EntryStart
    \/ \E list \in LiveHostLists, failed \in BOOLEAN : CallHosts(list, failed)
    \/ Target
    \/ EntryFinish
    \/ RunEnd

SpecLive == Init /\ [][NextLive]_vars /\ WF_vars(RunStep)

\* the positions inside run
RunPcs == {"run", "entry", "hosts", "target"}

\* the most steps an entry takes: its start, its Hosts call, one step per
\* target and its end
StepsPerEntry == 3 + MaxTargets

\* the entries of the selection that have not ended
EntriesLeft == Len(simulators) - idx + 1

\* an upper bound of the steps run has left, from the entries and the
\* targets that remain
StepsLeft ==
    CASE pc = "run"    -> 2 + Len(simulators) * StepsPerEntry
      [] pc = "entry"  -> 1 + EntriesLeft * StepsPerEntry
      [] pc = "hosts"  -> 1 + (EntriesLeft - 1) * StepsPerEntry + 2 + MaxTargets
      [] pc = "target" -> 1 + (EntriesLeft - 1) * StepsPerEntry + 1 + (Len(hosts) - j + 1)
      [] OTHER         -> 0

\* a step taken inside run lowers StepsLeft, which is never negative
StepLowersStepsLeft ==
    (pc \in RunPcs) => (StepsLeft >= 0 /\ StepsLeft' >= 0 /\ StepsLeft' < StepsLeft)

\* C19: every run that starts ends with the overall completion line and a
\* nil result, whether or not a Hosts call failed, and every step of run
\* lowers a count that is bounded by the entries and their targets.
C19_RunTerminates ==
    /\ (pc = "run") ~> (pc = "idle" /\ result = "nil" /\ log[Len(log)][1] = "Goodbye")
    /\ [][StepLowersStepsLeft]_vars

C19_Witness ==
    /\ pc = "idle"
    /\ result = "nil"
    /\ log[Len(log)][1] = "Goodbye"
    /\ Len(simulators) >= 2
    /\ Len(EventsOf(log, "Failed")) >= 1
    /\ Len(EventsOf(log, "Simulate")) >= 2

====
